---------------------------- MODULE Spec2Model ----------------------------
(***************************************************************************)
(* implementors/core/marker/trait.Send.js: the rustdoc "implementors"      *)
(* index of core::marker::Send.  The script is one immediately invoked     *)
(* function: it builds the table `implementors` (lines 1-4) and hands it   *)
(* to the documentation viewer (line 5), either by calling                 *)
(* window.register_implementors or by leaving it in                        *)
(* window.pending_implementors.                                            *)
(*                                                                         *)
(* Representation of the data.  A JavaScript value is a record             *)
(* [type, val]; val is the table of an object and NoTable otherwise.  The  *)
(* table maps a key to a list of entries <<text, 1, <<path>>>>.  A type    *)
(* path "a::b::C" is the sequence of its segments <<"a", "b", "C">>.  The  *)
(* display text (HTML) is the sequence of its pieces: text runs, <a>       *)
(* elements, <span>, </span> and <br>; the title attribute of an <a>,      *)
(* "enum a::b::C", is kept as item |-> "enum", path |-> <<"a","b","C">>.   *)
(* The script never changes an object once built, so objects are compared  *)
(* by content.                                                             *)
(***************************************************************************)
EXTENDS Integers, Sequences, FiniteSets, TLC

\* Number of times the page loads the script in a run of the model.
MaxLoads == 4

VARIABLES
  window,        \* the page's global object: the three properties below
  pc,            \* position of the script: idle, test, then, else, done
  implementors,  \* the script's local `var implementors`
  loads,         \* how many times the script has been started
  before,        \* history: window as it was when the running load started
  log            \* history: one record per hand-off of the table

vars == <<window, pc, implementors, loads, before, log>>

-----------------------------------------------------------------------------
\* JavaScript values

NoTable == [k \in {} |-> <<>>]

Undefined == [type |-> "undefined", val |-> NoTable]

Null == [type |-> "null", val |-> NoTable]

\* The function the viewer installs as window.register_implementors.
Registrar == [type |-> "function", val |-> NoTable]

Obj(t) == [type |-> "object", val |-> t]

\* ToBoolean, as `if (...)` applies it: undefined and null are falsy,
\* objects and functions are truthy.
Truthy(v) == v.type \notin {"undefined", "null"}

-----------------------------------------------------------------------------
\* Pieces of the display text

Text(s) ==
  [kind |-> "text", class |-> "", href |-> "", item |-> "", path |-> <<>>, s |-> s]

Anchor(class, href, item, path, s) ==
  [kind |-> "a", class |-> class, href |-> href, item |-> item, path |-> path, s |-> s]

SpanOpen(class) ==
  [kind |-> "span", class |-> class, href |-> "", item |-> "", path |-> <<>>, s |-> ""]

SpanClose ==
  [kind |-> "/span", class |-> "", href |-> "", item |-> "", path |-> <<>>, s |-> ""]

Br ==
  [kind |-> "br", class |-> "", href |-> "", item |-> "", path |-> <<>>, s |-> ""]

-----------------------------------------------------------------------------
\* The table, line by line

Crate_ak09915_rs ==
  <<
    << <<
        Text("impl "),
        Anchor("trait", "https://doc.rust-lang.org/1.68.2/core/marker/trait.Send.html", "trait", <<"core", "marker", "Send">>, "Send"),
        Text(" for "),
        Anchor("enum", "ak09915_rs/enum.Register.html", "enum", <<"ak09915_rs", "Register">>, "Register")
       >>,
       1,
       <<<<"ak09915_rs", "Register">>>> >>,
    << <<
        Text("impl "),
        Anchor("trait", "https://doc.rust-lang.org/1.68.2/core/marker/trait.Send.html", "trait", <<"core", "marker", "Send">>, "Send"),
        Text(" for "),
        Anchor("enum", "ak09915_rs/enum.Mode.html", "enum", <<"ak09915_rs", "Mode">>, "Mode")
       >>,
       1,
       <<<<"ak09915_rs", "Mode">>>> >>,
    << <<
        Text("impl&lt;E&gt; "),
        Anchor("trait", "https://doc.rust-lang.org/1.68.2/core/marker/trait.Send.html", "trait", <<"core", "marker", "Send">>, "Send"),
        Text(" for "),
        Anchor("enum", "ak09915_rs/enum.Error.html", "enum", <<"ak09915_rs", "Error">>, "Error"),
        Text("&lt;E&gt;"),
        SpanOpen("where fmt-newline"),
        Text("where"),
        Br,
        Text("&nbsp;&nbsp;&nbsp;&nbsp;E: "),
        Anchor("trait", "https://doc.rust-lang.org/1.68.2/core/marker/trait.Send.html", "trait", <<"core", "marker", "Send">>, "Send"),
        Text(","),
        SpanClose
       >>,
       1,
       <<<<"ak09915_rs", "Error">>>> >>,
    << <<
        Text("impl&lt;I2C&gt; "),
        Anchor("trait", "https://doc.rust-lang.org/1.68.2/core/marker/trait.Send.html", "trait", <<"core", "marker", "Send">>, "Send"),
        Text(" for "),
        Anchor("struct", "ak09915_rs/struct.Ak09915.html", "struct", <<"ak09915_rs", "Ak09915">>, "Ak09915"),
        Text("&lt;I2C&gt;"),
        SpanOpen("where fmt-newline"),
        Text("where"),
        Br,
        Text("&nbsp;&nbsp;&nbsp;&nbsp;I2C: "),
        Anchor("trait", "https://doc.rust-lang.org/1.68.2/core/marker/trait.Send.html", "trait", <<"core", "marker", "Send">>, "Send"),
        Text(","),
        SpanClose
       >>,
       1,
       <<<<"ak09915_rs", "Ak09915">>>> >>
  >>

Crate_embedded_hal ==
  <<
    << <<
        Text("impl&lt;'a&gt; "),
        Anchor("trait", "https://doc.rust-lang.org/1.68.2/core/marker/trait.Send.html", "trait", <<"core", "marker", "Send">>, "Send"),
        Text(" for "),
        Anchor("enum", "embedded_hal/blocking/i2c/enum.Operation.html", "enum", <<"embedded_hal", "blocking", "i2c", "Operation">>, "Operation"),
        Text("&lt;'a&gt;")
       >>,
       1,
       <<<<"embedded_hal", "blocking", "i2c", "Operation">>>> >>,
    << <<
        Text("impl&lt;'a, W&gt; "),
        Anchor("trait", "https://doc.rust-lang.org/1.68.2/core/marker/trait.Send.html", "trait", <<"core", "marker", "Send">>, "Send"),
        Text(" for "),
        Anchor("enum", "embedded_hal/blocking/spi/enum.Operation.html", "enum", <<"embedded_hal", "blocking", "spi", "Operation">>, "Operation"),
        Text("&lt;'a, W&gt;"),
        SpanOpen("where fmt-newline"),
        Text("where"),
        Br,
        Text("&nbsp;&nbsp;&nbsp;&nbsp;W: "),
        Anchor("trait", "https://doc.rust-lang.org/1.68.2/core/marker/trait.Send.html", "trait", <<"core", "marker", "Send">>, "Send"),
        Text(" + "),
        Anchor("trait", "https://doc.rust-lang.org/1.68.2/core/marker/trait.Sync.html", "trait", <<"core", "marker", "Sync">>, "Sync"),
        Text(","),
        SpanClose
       >>,
       1,
       <<<<"embedded_hal", "blocking", "spi", "Operation">>>> >>,
    << <<
        Text("impl "),
        Anchor("trait", "https://doc.rust-lang.org/1.68.2/core/marker/trait.Send.html", "trait", <<"core", "marker", "Send">>, "Send"),
        Text(" for "),
        Anchor("struct", "embedded_hal/can/struct.StandardId.html", "struct", <<"embedded_hal", "can", "StandardId">>, "StandardId")
       >>,
       1,
       <<<<"embedded_hal", "can", "id", "StandardId">>>> >>,
    << <<
        Text("impl "),
        Anchor("trait", "https://doc.rust-lang.org/1.68.2/core/marker/trait.Send.html", "trait", <<"core", "marker", "Send">>, "Send"),
        Text(" for "),
        Anchor("struct", "embedded_hal/can/struct.ExtendedId.html", "struct", <<"embedded_hal", "can", "ExtendedId">>, "ExtendedId")
       >>,
       1,
       <<<<"embedded_hal", "can", "id", "ExtendedId">>>> >>,
    << <<
        Text("impl "),
        Anchor("trait", "https://doc.rust-lang.org/1.68.2/core/marker/trait.Send.html", "trait", <<"core", "marker", "Send">>, "Send"),
        Text(" for "),
        Anchor("enum", "embedded_hal/can/enum.Id.html", "enum", <<"embedded_hal", "can", "Id">>, "Id")
       >>,
       1,
       <<<<"embedded_hal", "can", "id", "Id">>>> >>,
    << <<
        Text("impl "),
        Anchor("trait", "https://doc.rust-lang.org/1.68.2/core/marker/trait.Send.html", "trait", <<"core", "marker", "Send">>, "Send"),
        Text(" for "),
        Anchor("enum", "embedded_hal/can/enum.ErrorKind.html", "enum", <<"embedded_hal", "can", "ErrorKind">>, "ErrorKind")
       >>,
       1,
       <<<<"embedded_hal", "can", "ErrorKind">>>> >>,
    << <<
        Text("impl "),
        Anchor("trait", "https://doc.rust-lang.org/1.68.2/core/marker/trait.Send.html", "trait", <<"core", "marker", "Send">>, "Send"),
        Text(" for "),
        Anchor("enum", "embedded_hal/digital/v2/enum.PinState.html", "enum", <<"embedded_hal", "digital", "v2", "PinState">>, "PinState")
       >>,
       1,
       <<<<"embedded_hal", "digital", "v2", "PinState">>>> >>,
    << <<
        Text("impl&lt;T&gt; "),
        Anchor("trait", "https://doc.rust-lang.org/1.68.2/core/marker/trait.Send.html", "trait", <<"core", "marker", "Send">>, "Send"),
        Text(" for "),
        Anchor("struct", "embedded_hal/digital/v1_compat/struct.OldOutputPin.html", "struct", <<"embedded_hal", "digital", "v1_compat", "OldOutputPin">>, "OldOutputPin"),
        Text("&lt;T&gt;"),
        SpanOpen("where fmt-newline"),
        Text("where"),
        Br,
        Text("&nbsp;&nbsp;&nbsp;&nbsp;T: "),
        Anchor("trait", "https://doc.rust-lang.org/1.68.2/core/marker/trait.Send.html", "trait", <<"core", "marker", "Send">>, "Send"),
        Text(","),
        SpanClose
       >>,
       1,
       <<<<"embedded_hal", "digital", "v1_compat", "OldOutputPin">>>> >>,
    << <<
        Text("impl "),
        Anchor("trait", "https://doc.rust-lang.org/1.68.2/core/marker/trait.Send.html", "trait", <<"core", "marker", "Send">>, "Send"),
        Text(" for "),
        Anchor("enum", "embedded_hal/spi/enum.Polarity.html", "enum", <<"embedded_hal", "spi", "Polarity">>, "Polarity")
       >>,
       1,
       <<<<"embedded_hal", "spi", "Polarity">>>> >>,
    << <<
        Text("impl "),
        Anchor("trait", "https://doc.rust-lang.org/1.68.2/core/marker/trait.Send.html", "trait", <<"core", "marker", "Send">>, "Send"),
        Text(" for "),
        Anchor("enum", "embedded_hal/spi/enum.Phase.html", "enum", <<"embedded_hal", "spi", "Phase">>, "Phase")
       >>,
       1,
       <<<<"embedded_hal", "spi", "Phase">>>> >>,
    << <<
        Text("impl "),
        Anchor("trait", "https://doc.rust-lang.org/1.68.2/core/marker/trait.Send.html", "trait", <<"core", "marker", "Send">>, "Send"),
        Text(" for "),
        Anchor("struct", "embedded_hal/spi/struct.Mode.html", "struct", <<"embedded_hal", "spi", "Mode">>, "Mode")
       >>,
       1,
       <<<<"embedded_hal", "spi", "Mode">>>> >>
  >>

Crate_void ==
  <<
    << <<
        Text("impl "),
        Anchor("trait", "https://doc.rust-lang.org/1.68.2/core/marker/trait.Send.html", "trait", <<"core", "marker", "Send">>, "Send"),
        Text(" for "),
        Anchor("enum", "void/enum.Void.html", "enum", <<"void", "Void">>, "Void")
       >>,
       1,
       <<<<"void", "Void">>>> >>
  >>

\* Faulty variants of the table: keyed by the trait; one entry lost; one
\* entry listed twice.
ImplementorsLiteral_ByTrait ==
  [Send |-> Crate_ak09915_rs \o Crate_embedded_hal \o Crate_void]

ImplementorsLiteral_Short ==
  [ak09915_rs |-> Crate_ak09915_rs, embedded_hal |-> Tail(Crate_embedded_hal),
   void |-> Crate_void]

ImplementorsLiteral_Twice ==
  [ak09915_rs |-> Crate_ak09915_rs, embedded_hal |-> Crate_embedded_hal,
   void |-> Crate_void \o Crate_void]

\* var implementors = { "ak09915_rs": [...], "embedded_hal": [...], "void": [...] };
ImplementorsLiteral ==
  [ak09915_rs |-> Crate_ak09915_rs, embedded_hal |-> Crate_embedded_hal,
   void |-> Crate_void]

-----------------------------------------------------------------------------
\* Reading an entry [text, 1, [path]]

IsTraitLink(p) == p.kind = "a" /\ p.class = "trait"

\* The trait an entry implements: "impl<..> <a class="trait" ..>T</a> for ..",
\* the first trait link of the text.
ImplTrait(entry) ==
  LET text == entry[1]
      i == CHOOSE n \in DOMAIN text :
             IsTraitLink(text[n]) /\ \A m \in 1..(n - 1) : ~IsTraitLink(text[m])
  IN  text[i]

\* The implementing type: the link that follows " for ".
ForType(entry) ==
  LET text == entry[1]
      i == CHOOSE n \in DOMAIN text :
             /\ n > 1
             /\ text[n].kind = "a"
             /\ text[n - 1] = Text(" for ")
  IN  text[i]

\* Every trait the table names, in any position of any text.
TraitPaths(t) ==
  UNION { UNION { { t[k][i][1][n].path :
                      n \in { m \in DOMAIN t[k][i][1] : IsTraitLink(t[k][i][1][m]) } } :
                  i \in DOMAIN t[k] } :
          k \in DOMAIN t }

\* Where each type path of the table is listed: <<key, entry, position, path>>.
ListedPaths(t) ==
  UNION { UNION { { <<k, i, n, t[k][i][3][n]>> : n \in DOMAIN t[k][i][3] } :
                  i \in DOMAIN t[k] } :
          k \in DOMAIN t }

-----------------------------------------------------------------------------
\* The page around the script

\* What another implementors script of the same page may have left in
\* window.pending_implementors.
OtherTable == [void |-> Crate_void]

\* window.register_implementors holds the viewer's function or nothing; null
\* stands for the falsy values other than undefined.
RegistrarValues == {Undefined, Null, Registrar}

PendingValues == {Undefined, Obj(OtherTable)}

-----------------------------------------------------------------------------
\* The script, line 5

\* Faulty variant: without the function wrapper the var is a global.
EnterWindow_Global(w, impl) == [w EXCEPT !.implementors = impl]

\* (function() {var implementors = {...};  -- a local of the function: the
\* page's global object is not touched.
EnterWindow(w, impl) == w

\* Faulty variant: the condition negated.
Branch_Inverted(w) == IF Truthy(w.register_implementors) THEN "else" ELSE "then"

\* if (window.register_implementors) {...} else {...}
Branch(w) == IF Truthy(w.register_implementors) THEN "then" ELSE "else"

\* Faulty variant: what is pending is passed on instead of the table.
CallArg_Pending(w, impl) == w.pending_implementors

\* window.register_implementors(implementors): the argument of the call.
CallArg(w, impl) == impl

\* Faulty variant: the assignment follows the call (a missing else).
CallWindow_AlsoPending(w, impl) == [w EXCEPT !.pending_implementors = impl]

\* {window.register_implementors(implementors);}  -- the script itself
\* writes nothing to the page on this branch.
CallWindow(w, impl) == w

\* A table holding the entries of both.
Merge(a, b) ==
  [k \in DOMAIN a \cup DOMAIN b |->
     (IF k \in DOMAIN a THEN a[k] ELSE <<>>) \o (IF k \in DOMAIN b THEN b[k] ELSE <<>>)]

\* Faulty variant: the table is added to what is pending.
AssignWindow_Merge(w, impl) ==
  [w EXCEPT !.pending_implementors =
     IF w.pending_implementors.type = "object"
       THEN Obj(Merge(w.pending_implementors.val, impl.val))
       ELSE impl]

\* {window.pending_implementors = implementors;}
AssignWindow(w, impl) == [w EXCEPT !.pending_implementors = impl]

\* The history record of one hand-off.
HandOff(via, arg, w) ==
  [load |-> loads, via |-> via, arg |-> arg, before |-> before, after |-> w]

Init ==
  /\ window \in [register_implementors : RegistrarValues,
                 pending_implementors : PendingValues,
                 implementors : {Undefined}]
  /\ pc = "idle"
  /\ implementors = Undefined
  /\ loads = 0
  /\ before = window
  /\ log = <<>>

\* The page loads the script: the function is entered and the table built.
Enter ==
  /\ pc = "idle"
  /\ loads < MaxLoads
  /\ loads' = loads + 1
  /\ before' = window
  /\ implementors' = Obj(ImplementorsLiteral)
  /\ window' = EnterWindow(window, implementors')
  /\ pc' = "test"
  /\ UNCHANGED log

IfTest ==
  /\ pc = "test"
  /\ pc' = Branch(window)
  /\ UNCHANGED <<window, implementors, loads, before, log>>

Call ==
  /\ pc = "then"
  /\ window' = CallWindow(window, implementors)
  /\ log' = Append(log, HandOff("call", CallArg(window, implementors), window'))
  /\ pc' = "done"
  /\ UNCHANGED <<implementors, loads, before>>

Assign ==
  /\ pc = "else"
  /\ window' = AssignWindow(window, implementors)
  /\ log' = Append(log, HandOff("pending", window'.pending_implementors, window'))
  /\ pc' = "done"
  /\ UNCHANGED <<implementors, loads, before>>

\* })()  -- the function returns and its local is gone.
Return ==
  /\ pc = "done"
  /\ pc' = "idle"
  /\ implementors' = Undefined
  /\ UNCHANGED <<window, loads, before, log>>

\* Between loads the viewer may install its registrar; it never removes it.
ViewerInstallsRegistrar ==
  /\ pc = "idle"
  /\ window.register_implementors # Registrar
  /\ window' = [window EXCEPT !.register_implementors = Registrar]
  /\ UNCHANGED <<pc, implementors, loads, before, log>>

\* Between loads other code of the page may replace what is pending.
PageSetsPending ==
  /\ pc = "idle"
  /\ \E v \in PendingValues :
       /\ v # window.pending_implementors
       /\ window' = [window EXCEPT !.pending_implementors = v]
  /\ UNCHANGED <<pc, implementors, loads, before, log>>

Next ==
  \/ Enter
  \/ IfTest
  \/ Call
  \/ Assign
  \/ Return
  \/ ViewerInstallsRegistrar
  \/ PageSetsPending

Spec == Init /\ [][Next]_vars

TypeOK ==
  /\ pc \in {"idle", "test", "then", "else", "done"}
  /\ loads \in 0..MaxLoads
  /\ Len(log) <= loads

-----------------------------------------------------------------------------
\* Reading the history

\* The hand-offs of load n.
Of(n) == SelectSeq(log, LAMBDA e : e.load = n)

\* The loads that have run to the end of line 5.
Finished == { n \in 1..loads : n < loads \/ pc \in {"done", "idle"} }

\* The tables handed to the viewer so far.
HandedTables == { log[i].arg.val : i \in DOMAIN log }

SendPath == <<"core", "marker", "Send">>

\* k names a trait of table t: its path, or the last segment of its path.
IsTraitName(k, t) == \E p \in TraitPaths(t) : <<k>> = p \/ k = p[Len(p)]

TheTable == Obj(ImplementorsLiteral)

-----------------------------------------------------------------------------
\* C1: every load hands the table over in exactly one way.  A finished load
\* has exactly one hand-off.  When window.register_implementors was truthy
\* as the load started, the hand-off is one call with the table as the
\* argument and window.pending_implementors is as it was; otherwise no call
\* is made and window.pending_implementors holds the table.
C1_ExactlyOneWay ==
  \A n \in Finished :
    /\ Len(Of(n)) = 1
    /\ LET e == Of(n)[1]
       IN  IF Truthy(e.before.register_implementors)
             THEN /\ e.via = "call"
                  /\ e.arg = TheTable
                  /\ e.after.pending_implementors = e.before.pending_implementors
             ELSE /\ e.via = "pending"
                  /\ e.after.pending_implementors = TheTable

\* Both ways have been taken: a load that found null made no call, a later
\* load that found the registrar made one.
C1_Witness ==
  /\ pc = "idle"
  /\ \E i, j \in DOMAIN log :
       /\ log[i].via = "pending" /\ log[i].before.register_implementors = Null
       /\ log[j].via = "call" /\ log[j].before.register_implementors = Registrar
       /\ log[j].before.pending_implementors = TheTable

\* C2, as stated: no control flow and no state.  Every load takes the same
\* steps, whatever window.register_implementors is, and leaves every
\* property of window as it was.
C2_NoControlFlowNoState ==
  /\ \A i, j \in DOMAIN log : log[i].via = log[j].via
  /\ \A i \in DOMAIN log : log[i].after = log[i].before

\* C2, amended: the script has one branch, on the truthiness of
\* window.register_implementors: two loads take the same steps exactly when
\* that truthiness is the same.  A load never writes a property of window
\* other than pending_implementors, and writes none at all when the
\* registrar is truthy.
C2_OneBranchOneWrite ==
  /\ \A i, j \in DOMAIN log :
       (log[i].via = log[j].via) <=>
         (Truthy(log[i].before.register_implementors)
            <=> Truthy(log[j].before.register_implementors))
  /\ \A i \in DOMAIN log :
       /\ log[i].after.register_implementors = log[i].before.register_implementors
       /\ log[i].after.implementors = log[i].before.implementors
       /\ log[i].via = "call" => log[i].after = log[i].before
       /\ log[i].via = "pending" =>
            log[i].after = [log[i].before EXCEPT !.pending_implementors = TheTable]
  /\ pc \in {"test", "then", "else"} => window = before
  /\ pc = "done" => window = log[Len(log)].after

\* A load that changed the page and a load that did not.
C2_Witness ==
  \E i, j \in DOMAIN log :
    /\ log[i].via = "pending" /\ log[i].after # log[i].before
    /\ log[j].via = "call" /\ log[j].after = log[j].before
    /\ log[j].before.pending_implementors = Obj(OtherTable)

\* C3: the value handed to the viewer is the same in every execution: any
\* two hand-offs, by either way, from any two page states, carry the same
\* table, and what is left in window.pending_implementors is that table.
C3_SameValueEveryLoad ==
  \A i, j \in DOMAIN log :
    /\ log[i].arg = log[j].arg
    /\ log[i].via = "pending" => log[i].after.pending_implementors = log[j].arg

\* Three hand-offs that started from three different values of
\* window.pending_implementors, by both ways.
C3_Witness ==
  \E i, j, k \in DOMAIN log :
    /\ i < j /\ j < k
    /\ log[i].before.pending_implementors = Undefined
    /\ log[j].before.pending_implementors = Obj(OtherTable)
    /\ log[k].before.pending_implementors = TheTable
    /\ {log[i].via, log[j].via, log[k].via} = {"call", "pending"}

\* C4, as stated: the keys of the table are trait names.
C4_KeysAreTraitNames ==
  \A t \in HandedTables : \A k \in DOMAIN t : IsTraitName(k, t)

\* C4, amended: the keys of the table are crate names, not trait names: each
\* key is the crate of every type listed under it, and the value under a key
\* is the list of that crate's types that implement the one trait of the
\* file, core::marker::Send.
C4_KeysAreCrateNames ==
  \A t \in HandedTables :
    \A k \in DOMAIN t :
      /\ ~IsTraitName(k, t)
      /\ \A i \in DOMAIN t[k] :
           /\ ForType(t[k][i]).path[1] = k
           /\ ForType(t[k][i]).item \in {"enum", "struct"}
           /\ ImplTrait(t[k][i]).path = SendPath

\* A table has been handed over by a call, with a re-exported type under
\* its crate's key.
C4_Witness ==
  \E i \in DOMAIN log :
    /\ log[i].via = "call"
    /\ \E n \in DOMAIN log[i].arg.val["embedded_hal"] :
         ForType(log[i].arg.val["embedded_hal"][n]).path
           = <<"embedded_hal", "can", "StandardId">>

\* C5: the table describes exactly three crates, ak09915_rs, embedded_hal
\* and void, with 4, 11 and 1 entries, and every entry of every crate is an
\* implementation of core::marker::Send and of no other trait.
C5_ThreeCratesOneTrait ==
  \A t \in HandedTables :
    /\ DOMAIN t = {"ak09915_rs", "embedded_hal", "void"}
    /\ Len(t["ak09915_rs"]) = 4
    /\ Len(t["embedded_hal"]) = 11
    /\ Len(t["void"]) = 1
    /\ \A k \in DOMAIN t : \A i \in DOMAIN t[k] :
         /\ ImplTrait(t[k][i]).item = "trait"
         /\ ImplTrait(t[k][i]).path = SendPath
         /\ ImplTrait(t[k][i]).s = "Send"

\* The table left pending names a second trait, Sync, in a where clause,
\* and still no entry implements it.
C5_Witness ==
  /\ pc = "done"
  /\ window.pending_implementors.type = "object"
  /\ Len(window.pending_implementors.val["embedded_hal"]) = 11
  /\ <<"core", "marker", "Sync">> \in TraitPaths(window.pending_implementors.val)

\* C6: the branch is taken once per load and never revisited.  The registrar
\* is called only by a load that found it truthy when it started; a load
\* that found it falsy makes no call, then or later, whatever the viewer
\* installs afterwards, and no step of the script other than the assignment
\* changes window.pending_implementors.
C6_DecidedOnce ==
  [][ /\ (SelectSeq(log', LAMBDA e : e.via = "call")
            # SelectSeq(log, LAMBDA e : e.via = "call"))
          => /\ pc = "then"
             /\ Truthy(before.register_implementors)
             /\ Truthy(window.register_implementors)
      /\ (window'.register_implementors # window.register_implementors)
          => log' = log
      /\ pc \in {"test", "then", "done"}
          => window'.pending_implementors = window.pending_implementors
      /\ pc = "test"
          => (pc' = "then" <=> Truthy(window.register_implementors))
    ]_vars

\* The last load found no registrar and left the table pending; the viewer
\* has installed its registrar since, and no call has been made.
C6_Witness ==
  /\ pc = "idle"
  /\ log # <<>>
  /\ log[Len(log)].load = loads
  /\ log[Len(log)].via = "pending"
  /\ log[Len(log)].before.register_implementors = Undefined
  /\ window.register_implementors = Registrar
  /\ window.pending_implementors = TheTable
  /\ \A i \in DOMAIN log : log[i].via = "pending"

\* C7: loading twice.  Of two loads in a row that both find no registrar,
\* the second leaves in window.pending_implementors what the first left
\* (the table, overwritten), and leaves the page as it found it when nothing
\* else wrote in between.  Of two loads in a row that both find a registrar,
\* each makes one call, with equal tables, and neither touches
\* window.pending_implementors.
C7_LoadTwice ==
  \A i \in DOMAIN log :
    (i + 1 \in DOMAIN log /\ log[i + 1].load = log[i].load + 1) =>
      LET a == log[i]
          b == log[i + 1]
      IN  /\ (a.via = "pending" /\ b.via = "pending") =>
                /\ b.after.pending_implementors = a.after.pending_implementors
                /\ b.before = a.after => b.after = a.after
          /\ (a.via = "call" /\ b.via = "call") =>
                /\ Len(Of(a.load)) = 1 /\ Len(Of(b.load)) = 1
                /\ b.arg = a.arg
                /\ a.after.pending_implementors = a.before.pending_implementors
                /\ b.after.pending_implementors = b.before.pending_implementors

\* Two loads in a row without a registrar and nothing in between, then two
\* in a row with one.
C7_Witness ==
  /\ Len(log) = 4
  /\ log[1].via = "pending" /\ log[2].via = "pending"
  /\ log[1].before.pending_implementors = Obj(OtherTable)
  /\ log[2].before = log[1].after
  /\ log[3].via = "call" /\ log[4].via = "call"

\* C8: every entry is a triple [display text, 1, [type path]]: the third
\* element holds exactly one path, of at least two segments, whose first
\* segment is the key the entry is listed under, and no path is listed
\* twice in the table.
C8_EntriesWellFormed ==
  \A t \in HandedTables :
    /\ \A k \in DOMAIN t : \A i \in DOMAIN t[k] :
         /\ Len(t[k][i]) = 3
         /\ Len(t[k][i][1]) > 0
         /\ t[k][i][2] = 1
         /\ Len(t[k][i][3]) = 1
         /\ Len(t[k][i][3][1]) >= 2
         /\ t[k][i][3][1][1] = k
    /\ \A x, y \in ListedPaths(t) : x[4] = y[4] => x = y

\* The table handed over holds the 16 paths, the longest of four segments.
C8_Witness ==
  \E t \in HandedTables :
    /\ Cardinality(ListedPaths(t)) = 16
    /\ \E x \in ListedPaths(t) :
         x[4] = <<"embedded_hal", "digital", "v1_compat", "OldOutputPin">>

=============================================================================
